---- MODULE Spec2Model ----
(***************************************************************************)
(* Model of server.js: an express server with four request handlers        *)
(*   DELETE /delete-user/:userId, POST /validate-feed, GET /check-scan,    *)
(*   POST /fetch-articles                                                   *)
(* working on three external stores (the auth subsystem, the users table,  *)
(* the scan_logs table), a feed parser and a completion API.               *)
(*                                                                         *)
(* A handler is an async function: it runs without interruption from one   *)
(* await to the next.  Every action below is one such stretch: the effect  *)
(* of the awaited external call followed by the handler's code up to the   *)
(* next await (or up to the response).  The outcome of an external call    *)
(* (success, reported error, exception) is chosen with \E.                 *)
(*                                                                         *)
(* Time is counted in ticks, DayLen ticks to a day.  A timestamp string    *)
(* (Date.toISOString, an item's pubDate) is the pair <<day, tick of day>>; *)
(* a string that is no date is <<>>.                                       *)
(***************************************************************************)
EXTENDS Integers, Sequences, FiniteSets

\* ---------------------------------------------------------------- bounds
MaxTime == 2       \* the clock stops after this many ticks
DayLen == 2        \* ticks per day

Reqs == {1, 2}             \* request slots: two requests may be in flight together
UserIds == {"u1", "u2"}
FeedUrls == {"a", "b"}
Contexts == {"the best AI news"}
Missing == "undefined"      \* what a template literal prints for an absent value

VARIABLES
  now,          \* the clock (new Date()), in ticks
  apiKey,       \* process.env.OPENAI_API_KEY is set
  authUsers,    \* ids known to the auth subsystem
  users,        \* ids of the rows of the users table
  scan_logs,    \* rows of the scan_logs table: sequence of scan_date
  req           \* per request slot: the handler's locals and its response

vars == <<now, apiKey, authUsers, users, scan_logs, req>>

\* ------------------------------------------------------------ dates
\* new Date(today.setHours(0, 0, 0, 0)): the clock with the time of day zeroed
\* (the server's days are taken to begin on a multiple of DayLen)
SetHoursZero(t) == t - (t % DayLen)

\* Date.prototype.toISOString
ToISOString(t) == <<t \div DayLen, t % DayLen>>

\* new Date(string): the time value, NaN for a string that is no date
DateParse(s) ==
  IF Len(s) = 2 THEN [nan |-> FALSE, t |-> s[1] * DayLen + s[2]]
  ELSE [nan |-> TRUE, t |-> 0]

\* a >= b on two Dates: false as soon as one is NaN
\* (faulty variant: > in place of >=)
DateGeStrict(a, b) == ~a.nan /\ ~b.nan /\ a.t > b.t
DateGe(a, b) == ~a.nan /\ ~b.nan /\ a.t >= b.t

\* ------------------------------------------------------------ feeds
\* Items as rss-parser returns them.  Feed a holds an item of day 0, an item
\* published at the first tick of day 1, and an item without date or guid;
\* feed b reuses the guids of feed a.
ItemsA ==
  << [guid |-> "g1", title |-> "t1", link |-> "l1", pubDate |-> <<0, 1>>,
      content |-> "c1", contentSnippet |-> "s1"],
     [guid |-> "g2", title |-> "t2", link |-> "l2", pubDate |-> <<1, 0>>,
      content |-> "", contentSnippet |-> "s2"],
     [guid |-> Missing, title |-> "t3", link |-> "l3", pubDate |-> <<>>,
      content |-> "", contentSnippet |-> ""] >>
ItemsB ==
  << [guid |-> "g1", title |-> "t4", link |-> "l4", pubDate |-> <<1, 1>>,
      content |-> "c4", contentSnippet |-> ""],
     [guid |-> "g2", title |-> "t5", link |-> "l5", pubDate |-> <<0, 0>>,
      content |-> "", contentSnippet |-> ""] >>
\* the items parser.parseURL(feedUrl) resolves to when it succeeds
FeedItems(feedUrl) == IF feedUrl = "a" THEN ItemsA ELSE ItemsB

\* feed.items.filter(item => new Date(item.pubDate) >= new Date(startOfToday))
\* (faulty variant: an item dated exactly at start of today is dropped)
TodayItemsStrict(items, startOfToday) ==
  SelectSeq(items, LAMBDA item :
    DateGeStrict(DateParse(item.pubDate), DateParse(startOfToday)))
TodayItems(items, startOfToday) ==
  SelectSeq(items, LAMBDA item :
    DateGe(DateParse(item.pubDate), DateParse(startOfToday)))

\* the article pushed for one item; id is `${feedUrl}_${item.guid}`
Article(feedUrl, item) ==
  [id |-> <<feedUrl, "_", item.guid>>,
   title |-> item.title,
   link |-> item.link,
   pubDate |-> item.pubDate,
   content |-> IF item.content # "" THEN item.content
               ELSE IF item.contentSnippet # "" THEN item.contentSnippet
               ELSE ""]

\* todayItems.forEach(item => articles.push(...)): the articles of one feed
FeedArticles(feedUrl, items, startOfToday) ==
  LET todayItems == TodayItems(items, startOfToday)
  IN  [k \in 1..Len(todayItems) |-> Article(feedUrl, todayItems[k])]

\* articles.map(article => `***ID ${article.id}: \n${article.content}\n***`).join('\n')
RECURSIVE PromptText(_)
PromptText(articles) ==
  IF articles = <<>> THEN <<>>
  ELSE LET block == <<"***ID ", articles[1].id, ": \n", articles[1].content, "\n***">>
       IN  IF Len(articles) = 1 THEN block
           ELSE block \o <<"\n">> \o PromptText(Tail(articles))

\* `${prompt}${promptText}`: the instruction of line 140 around the caller's
\* openAiContext, then the article blocks
Prompt(openAiContext, articles) ==
  <<"You act as an editor of the newsfeed and your job is to pick ",
    openAiContext,
    ". You will be given article previews. When responding, list top 3 article IDs (as a comma-separated list - no text is necessary) you feel are the most prominent. \n\n">>
    \o PromptText(articles)

\* The completion text is a sequence of UTF-16 code units, given by number.
\* The code units String.prototype.trim strips, which are the WhiteSpace and
\* LineTerminator of ECMAScript: U+0009 to U+000D, U+0020, U+00A0, U+1680,
\* U+2000 to U+200A, U+2028, U+2029, U+202F, U+205F, U+3000, U+FEFF
WhiteSpace ==
  (9..13) \cup {32, 160, 5760} \cup (8192..8202)
    \cup {8232, 8233, 8239, 8287, 12288, 65279}

\* String.prototype.trim: the text without its leading and trailing white space
RECURSIVE TrimStart(_)
TrimStart(text) ==
  IF text # <<>> /\ Head(text) \in WhiteSpace THEN TrimStart(Tail(text)) ELSE text
RECURSIVE TrimEnd(_)
TrimEnd(text) ==
  IF text # <<>> /\ text[Len(text)] \in WhiteSpace
  THEN TrimEnd(SubSeq(text, 1, Len(text) - 1)) ELSE text
Trim(text) == TrimEnd(TrimStart(text))

\* texts the completion API may answer with: "\n\n a_g1,b_g1" followed by a
\* no-break space, a tab and a line feed
CompletionTexts == {<<10, 10, 32, 97, 95, 103, 49, 44, 98, 95, 103, 49, 160, 9, 10>>}

\* ------------------------------------------------------------ requests
\* sequences over S of length at most n
RECURSIVE SeqsUpTo(_, _)
SeqsUpTo(S, n) ==
  IF n = 0 THEN {<<>>}
  ELSE LET shorter == SeqsUpTo(S, n - 1)
       IN  shorter \cup {Append(q, x) : q \in {p \in shorter : Len(p) = n - 1}, x \in S}

\* the feeds lists of the requests: none, one or two of the feed URLs, with
\* repetition
FeedLists == SeqsUpTo(FeedUrls, Cardinality(FeedUrls))

\* requests are numbered in the order they arrive
Arrives(r) == req[r].pc = "idle" /\ \A s \in Reqs : s < r => req[s].pc # "idle"

\* a slot no request has arrived on.  calls is the log of the external calls
\* the handler has made; status 0 says no response has been sent.
Idle ==
  [kind |-> "none", pc |-> "idle", present |-> {},
   userId |-> Missing, url |-> Missing, feeds |-> <<>>, openAiContext |-> Missing,
   startOfToday |-> <<>>, i |-> 0, articles |-> <<>>, authError |-> "",
   topArticles |-> <<>>, scanDate |-> <<>>,
   calls |-> <<>>, status |-> 0, body |-> [message |-> <<>>]]

\* an external call the handler makes and awaits
Call(q, api, arg) ==
  [q EXCEPT !.calls = Append(@, [api |-> api, arg |-> arg, outcome |-> "pending"])]

\* the awaited call settles
Settle(q, outcome) == [q EXCEPT !.calls[Len(q.calls)].outcome = outcome]

\* res.status(status).json(body), after which the handler returns
Respond(q, status, body) == [q EXCEPT !.pc = "done", !.status = status, !.body = body]

Message(m) == [message |-> m]

\* ------------------------------------------------------------ POST /fetch-articles
\* lines 139-163: the prompt, the credential check, the completion call
\* (faulty variant: the credential is not checked)
AfterFeedsNoKeyCheck(q) ==
  Call([q EXCEPT !.pc = "openai"], "openai", Prompt(q.openAiContext, q.articles))
AfterFeeds(q) ==
  IF ~apiKey THEN Respond(q, 500, Message(<<"OpenAI API key is not set.">>))
  ELSE Call([q EXCEPT !.pc = "openai"], "openai", Prompt(q.openAiContext, q.articles))

\* the head of the loop for (const feedUrl of feeds), at position i
NextFeed(q, i) ==
  IF i > Len(q.feeds) THEN AfterFeeds(q)
  ELSE Call([q EXCEPT !.pc = "feed", !.i = i], "parseURL", q.feeds[i])

\* lines 111-119: the handler's body up to the first parser.parseURL.  Without
\* feeds in the body, for (... of undefined) throws into the outer catch.
\* (variant that validates the body and answers 400)
FetchBeginValidated(q) ==
  IF q.present # {"feeds", "openAiContext"}
  THEN Respond(q, 400, Message(<<"Missing required field">>))
  ELSE NextFeed(q, 1)
FetchBegin(q) ==
  IF "feeds" \notin q.present
  THEN Respond(q, 500, Message(<<"Error fetching articles">>))
  ELSE NextFeed(q, 1)

\* the request arrives: lines 109-119
FetchArticlesStart(r) ==
  /\ Arrives(r)
  /\ \E present \in SUBSET {"feeds", "openAiContext"},
        feeds \in FeedLists, ctx \in Contexts :
       /\ ("feeds" \notin present) => feeds = <<>>
       /\ req' = [req EXCEPT ![r] =
            FetchBegin([Idle EXCEPT
              !.kind = "fetch", !.present = present, !.feeds = feeds,
              !.openAiContext = IF "openAiContext" \in present THEN ctx ELSE Missing,
              !.startOfToday = ToISOString(SetHoursZero(now))])]
  /\ UNCHANGED <<now, apiKey, authUsers, users, scan_logs>>

\* what follows a feed that parsed: its articles are pushed, the loop goes on
FeedParsed(q, items) ==
  NextFeed([q EXCEPT !.articles = @ \o FeedArticles(q.feeds[q.i], items, q.startOfToday)],
           q.i + 1)

\* what follows a feed that failed: lines 133-136
\* (faulty variant: the loop goes on to the next feed)
FeedFailedContinue(q) == NextFeed(q, q.i + 1)
FeedFailed(q) ==
  Respond(q, 500, Message(<<"Error fetching articles from ", q.feeds[q.i]>>))

\* parser.parseURL(feedUrl) settles: lines 119-137
FetchParseFeed(r) ==
  /\ req[r].pc = "feed"
  /\ \E outcome \in {"ok", "throws"} :
       req' = [req EXCEPT ![r] =
         IF outcome = "throws" THEN FeedFailed(Settle(req[r], outcome))
         ELSE FeedParsed(Settle(req[r], outcome), FeedItems(req[r].feeds[req[r].i]))]
  /\ UNCHANGED <<now, apiKey, authUsers, users, scan_logs>>

\* what follows a completed completion call: lines 168-172
CompletionDone(q, text) ==
  Call([q EXCEPT !.pc = "insert", !.topArticles = Trim(text),
                 !.scanDate = ToISOString(now)],
       "scan_logs.insert", ToISOString(now))

\* what follows a failed completion call: lines 176-179
\* (faulty variant: the scan log is written all the same)
CompletionFailedInsert(q) == CompletionDone(q, <<>>)
CompletionFailed(q) == Respond(q, 500, Message(<<"Error during OpenAI request">>))

\* axios.post settles: lines 151-179 up to the scan_logs insert.  "malformed"
\* is an answer without choices[0].text, on which line 168 throws.
FetchCompletion(r) ==
  /\ req[r].pc = "openai"
  /\ \E outcome \in {"ok", "malformed", "throws"}, text \in CompletionTexts :
       req' = [req EXCEPT ![r] =
         IF outcome # "ok" THEN CompletionFailed(Settle(req[r], outcome))
         ELSE CompletionDone(Settle(req[r], outcome), text)]
  /\ UNCHANGED <<now, apiKey, authUsers, users, scan_logs>>

\* the scan_logs table after an insert the store accepted
\* (variant that keeps one row per day)
InsertRowOncePerDay(logs, scan_date) ==
  IF \E k \in 1..Len(logs) : logs[k][1] = scan_date[1] THEN logs
  ELSE Append(logs, scan_date)
InsertRow(logs, scan_date) == Append(logs, scan_date)

\* the response after the insert settled without exception: line 174.  The
\* result of the insert (error) is not looked at.
AfterInsert(q, error) ==
  Respond(q, 200, [articles |-> q.articles, topArticles |-> q.topArticles])

\* supabaseAdmin.from('scan_logs').insert(...) settles: lines 172-179.  The store
\* client reports a rejected insert in the error field of its result.
FetchInsert(r) ==
  /\ req[r].pc = "insert"
  /\ \E outcome \in {"ok", "error", "throws"} :
       /\ scan_logs' = IF outcome = "ok" THEN InsertRow(scan_logs, req[r].scanDate)
                       ELSE scan_logs
       /\ req' = [req EXCEPT ![r] =
            IF outcome = "throws" THEN CompletionFailed(Settle(req[r], outcome))
            ELSE AfterInsert(Settle(req[r], outcome), outcome = "error")]
  /\ UNCHANGED <<now, apiKey, authUsers, users>>

\* ------------------------------------------------------------ GET /check-scan
\* .from('scan_logs').select('*').gte('scan_date', startOfToday)
\* (faulty variant: .gt in place of .gte)
ScanLogsSinceStrict(logs, startOfToday) ==
  SelectSeq(logs, LAMBDA d : DateGeStrict(DateParse(d), DateParse(startOfToday)))
ScanLogsSince(logs, startOfToday) ==
  SelectSeq(logs, LAMBDA d : DateGe(DateParse(d), DateParse(startOfToday)))

\* the request arrives: lines 83-89
CheckScanStart(r) ==
  /\ Arrives(r)
  /\ LET startOfToday == ToISOString(SetHoursZero(now))
     IN  req' = [req EXCEPT ![r] =
           Call([Idle EXCEPT !.kind = "check", !.pc = "query",
                             !.startOfToday = startOfToday],
                "scan_logs.select", startOfToday)]
  /\ UNCHANGED <<now, apiKey, authUsers, users, scan_logs>>

\* lines 96-100: the answer to the rows the query returned
ScanDone(data) == [scanDone |-> ~(Len(data) = 0)]

\* the select settles: lines 91-104
CheckScanQuery(r) ==
  /\ req[r].pc = "query"
  /\ \E outcome \in {"ok", "error", "throws"} :
       req' = [req EXCEPT ![r] =
         CASE outcome = "ok" ->
                Respond(Settle(req[r], outcome), 200,
                        ScanDone(ScanLogsSince(scan_logs, req[r].startOfToday)))
           [] outcome = "error" ->
                Respond(Settle(req[r], outcome), 500,
                        Message(<<"Error checking scan logs.">>))
           [] outcome = "throws" ->
                Respond(Settle(req[r], outcome), 500,
                        Message(<<"Unexpected error occurred while checking scan logs.">>))]
  /\ UNCHANGED <<now, apiKey, authUsers, users, scan_logs>>

\* ------------------------------------------------------------ POST /validate-feed
\* the request arrives: lines 65-68
ValidateFeedStart(r) ==
  /\ Arrives(r)
  /\ \E present \in SUBSET {"url"}, url \in FeedUrls :
       req' = [req EXCEPT ![r] =
         LET u == IF "url" \in present THEN url ELSE Missing
         IN  Call([Idle EXCEPT !.kind = "validate", !.pc = "parse",
                               !.present = present, !.url = u],
                  "parseURL", u)]
  /\ UNCHANGED <<now, apiKey, authUsers, users, scan_logs>>

\* lines 69-77: the answer to what the parser returned or threw
AfterParse(q) ==
  CASE q.calls[Len(q.calls)].outcome = "ok" ->
         Respond(q, 200, Message(<<"RSS feed is valid">>))
    [] q.calls[Len(q.calls)].outcome = "null" ->
         Respond(q, 400, Message(<<"Invalid RSS feed format">>))
    [] q.calls[Len(q.calls)].outcome = "throws" ->
         Respond(q, 500, Message(<<"Error parsing RSS feed">>))

\* parser.parseURL(url) settles: lines 68-77.  Without a url there is nothing
\* to fetch and the parser can only throw.
ValidateFeedParse(r) ==
  /\ req[r].pc = "parse"
  /\ \E outcome \in {"ok", "null", "throws"} :
       /\ ("url" \notin req[r].present) => outcome = "throws"
       /\ req' = [req EXCEPT ![r] = AfterParse(Settle(req[r], outcome))]
  /\ UNCHANGED <<now, apiKey, authUsers, users, scan_logs>>

\* ------------------------------------------------------------ DELETE /delete-user/:userId
\* messages of the errors the auth subsystem reports
AuthErrors == {"User not found", "Database error deleting user"}

\* the request arrives: lines 23-28
DeleteUserStart(r) ==
  /\ Arrives(r)
  /\ \E userId \in UserIds :
       req' = [req EXCEPT ![r] =
         Call([Idle EXCEPT !.kind = "delete", !.pc = "auth", !.userId = userId],
              "auth.deleteUser", userId)]
  /\ UNCHANGED <<now, apiKey, authUsers, users, scan_logs>>

\* lines 30-43: what the handler does with the result of the auth deletion
\* (faulty variant: every auth error is passed over)
AfterAuthIgnoreErrors(q, authError) ==
  Call([q EXCEPT !.pc = "rows", !.authError = authError], "users.delete", q.userId)
AfterAuth(q, authError) ==
  IF authError # "" /\ authError # "User not found"
  THEN Respond([q EXCEPT !.authError = authError], 500,
               Message(<<"Failed to delete user from authentication: ", authError>>))
  ELSE Call([q EXCEPT !.pc = "rows", !.authError = authError], "users.delete", q.userId)

\* supabaseAdmin.auth.admin.deleteUser(userId) settles: lines 28-43 and 57-60
DeleteUserAuth(r) ==
  /\ req[r].pc = "auth"
  /\ \E outcome \in {"ok", "error", "throws"}, authError \in AuthErrors :
       /\ outcome = "ok" => req[r].userId \in authUsers
       /\ (outcome = "error" /\ authError = "User not found")
            => req[r].userId \notin authUsers
       /\ authUsers' = IF outcome = "ok" THEN authUsers \ {req[r].userId} ELSE authUsers
       /\ req' = [req EXCEPT ![r] =
            CASE outcome = "ok" -> AfterAuth(Settle(req[r], outcome), "")
              [] outcome = "error" -> AfterAuth(Settle(req[r], outcome), authError)
              [] outcome = "throws" ->
                   Respond(Settle(req[r], outcome), 500,
                           Message(<<"Unexpected error occurred while deleting user.">>))]
  /\ UNCHANGED <<now, apiKey, users, scan_logs>>

\* lines 50-56: the answer to the rows the deletion returned (data is the set
\* of deleted rows; the store returns them on account of .select('*'))
\* (faulty variant: the deleted rows are not looked at)
AfterRowsAlwaysOk(q, data) ==
  Respond(q, 200,
          Message(<<"User deleted successfully from both authentication and users table.">>))
AfterRows(q, data) ==
  IF data = {}
  THEN Respond(q, 404, Message(<<"No user was deleted from users table. ",
                 "Please ensure the user exists and you have the right permissions.">>))
  ELSE Respond(q, 200,
          Message(<<"User deleted successfully from both authentication and users table.">>))

\* .from('users').delete().eq('id', userId).select('*') settles: lines 39-60
DeleteUserRows(r) ==
  /\ req[r].pc = "rows"
  /\ \E outcome \in {"ok", "error", "throws"} :
       /\ users' = IF outcome = "ok" THEN users \ {req[r].userId} ELSE users
       /\ req' = [req EXCEPT ![r] =
            CASE outcome = "ok" ->
                   AfterRows(Settle(req[r], outcome), users \cap {req[r].userId})
              [] outcome = "error" ->
                   Respond(Settle(req[r], outcome), 500,
                           Message(<<"Failed to delete user from users table: ",
                                     "permission denied">>))
              [] outcome = "throws" ->
                   Respond(Settle(req[r], outcome), 500,
                           Message(<<"Unexpected error occurred while deleting user.">>))]
  /\ UNCHANGED <<now, apiKey, authUsers, scan_logs>>

\* ------------------------------------------------------------ the system
\* time passes
Tick ==
  /\ now < MaxTime
  /\ now' = now + 1
  /\ UNCHANGED <<apiKey, authUsers, users, scan_logs, req>>

\* The handlers share no state of the server: the feed handlers work on the
\* scan_logs table, the user-deletion handler on the auth subsystem and the
\* users table.  Each group is checked under a specification of its own.

\* the feed handlers and the scan log
Init ==
  /\ now = 0
  /\ apiKey \in BOOLEAN
  /\ authUsers = {}
  /\ users = {}
  /\ scan_logs = <<>>
  /\ req = [r \in Reqs |-> Idle]

Next ==
  \/ Tick
  \/ \E r \in Reqs : FetchArticlesStart(r)
  \/ \E r \in Reqs : FetchParseFeed(r)
  \/ \E r \in Reqs : FetchCompletion(r)
  \/ \E r \in Reqs : FetchInsert(r)
  \/ \E r \in Reqs : CheckScanStart(r)
  \/ \E r \in Reqs : CheckScanQuery(r)
  \/ \E r \in Reqs : ValidateFeedStart(r)
  \/ \E r \in Reqs : ValidateFeedParse(r)

Spec == Init /\ [][Next]_vars

\* the user-deletion handler and its two stores
InitUsers ==
  /\ now = 0
  /\ apiKey = TRUE
  /\ authUsers \in SUBSET UserIds
  /\ users \in SUBSET UserIds
  /\ scan_logs = <<>>
  /\ req = [r \in Reqs |-> Idle]

NextUsers ==
  \/ \E r \in Reqs : DeleteUserStart(r)
  \/ \E r \in Reqs : DeleteUserAuth(r)
  \/ \E r \in Reqs : DeleteUserRows(r)

SpecUsers == InitUsers /\ [][NextUsers]_vars

\* ------------------------------------------------------------ properties
\* the instant a timestamp string <<day, tick of day>> denotes
Instant(d) == d[1] * DayLen + d[2]

\* positions of the log of q that hold a call to api
CallsTo(q, api) == {k \in 1..Len(q.calls) : q.calls[k].api = api}

\* requests whose scan_logs insert the store accepted
Inserted == {r \in Reqs : \E k \in CallsTo(req[r], "scan_logs.insert") :
                            req[r].calls[k].outcome = "ok"}

\* a request of the given kind that has been answered
Answered(r, kind) == req[r].kind = kind /\ req[r].pc = "done"

\* q awaits its scan_logs insert, having parsed every feed of the request and
\* received the completion, with the credential set
ReadyToInsert(q) ==
  /\ q.kind = "fetch" /\ q.pc = "insert"
  /\ apiKey
  /\ Len(q.calls) = Len(q.feeds) + 2
  /\ \A k \in 1..Len(q.feeds) :
       /\ q.calls[k].api = "parseURL"
       /\ q.calls[k].arg = q.feeds[k]
       /\ q.calls[k].outcome = "ok"
  /\ q.calls[Len(q.feeds) + 1].api = "openai"
  /\ q.calls[Len(q.feeds) + 1].outcome = "ok"
  /\ q.calls[Len(q.feeds) + 2].api = "scan_logs.insert"

\* C1: a step that changes scan_logs appends the row of a request that parsed
\* all its feeds, had the credential and got its completion, and that step ends
\* the request; the step in which a POST /fetch-articles request is answered 500
\* leaves scan_logs as it was.
C1_ScanLogWrittenOnlyOnFullSuccess ==
  [][ /\ (scan_logs' # scan_logs) =>
           \E r \in Reqs : /\ ReadyToInsert(req[r])
                           /\ req'[r].pc = "done"
                           /\ scan_logs' = Append(scan_logs, req[r].scanDate)
      /\ \A r \in Reqs :
           (req[r].pc # "done" /\ Answered(r, "fetch")' /\ req'[r].status = 500)
             => scan_logs' = scan_logs ]_vars

\* C1 witness: one request over two feeds was answered 200 and its row is in
\* scan_logs, another one failed at the completion call and left no row.
C1_Witness ==
  \E r, f \in Reqs :
    /\ Answered(r, "fetch") /\ req[r].status = 200 /\ Len(req[r].feeds) = 2
    /\ Answered(f, "fetch") /\ req[f].status = 500
    /\ \E k \in CallsTo(req[f], "openai") : req[f].calls[k].outcome = "throws"
    /\ scan_logs = <<req[r].scanDate>>

\* C2: the feeds of a POST /fetch-articles request are parsed in input order,
\* each after the earlier ones parsed; the first feed that fails ends the
\* request with 500 and a message naming that feed, it is the last call the
\* request makes, the body carries no articles, and the request adds no row.
C2_FirstFailingFeedAborts ==
  /\ Len(scan_logs) <= Cardinality(Inserted)
  /\ \A r \in Reqs : req[r].kind = "fetch" =>
       \A k \in CallsTo(req[r], "parseURL") :
         /\ k <= Len(req[r].feeds)
         /\ req[r].calls[k].arg = req[r].feeds[k]
         /\ \A j \in 1..(k - 1) : /\ req[r].calls[j].api = "parseURL"
                                  /\ req[r].calls[j].outcome = "ok"
         /\ req[r].calls[k].outcome = "throws" =>
              /\ req[r].pc = "done"
              /\ req[r].status = 500
              /\ req[r].body = Message(<<"Error fetching articles from ", req[r].feeds[k]>>)
              /\ Len(req[r].calls) = k
              /\ r \notin Inserted

\* C2 witness: the second of two feeds failed after the first gave articles.
C2_Witness ==
  \E r \in Reqs :
    /\ Answered(r, "fetch") /\ Len(req[r].feeds) = 2
    /\ req[r].calls[1].outcome = "ok"
    /\ req[r].calls[2].outcome = "throws"
    /\ req[r].articles # <<>>

\* C3 as claimed: without credential a POST /fetch-articles request (with a
\* feeds list) is answered 500, credential missing, having made no outbound call.
C3_NoOutboundCallWithoutCredential ==
  \A r \in Reqs :
    (Answered(r, "fetch") /\ ~apiKey /\ "feeds" \in req[r].present) =>
      /\ req[r].status = 500
      /\ req[r].body = Message(<<"OpenAI API key is not set.">>)
      /\ req[r].calls = <<>>

\* C3 amended: without credential a POST /fetch-articles request fetches its
\* feeds first; it is answered 500 in every case, with the credential-missing
\* message once every feed has parsed, never calls the completion API and
\* adds no scan_logs row.
C3_NoCompletionCallWithoutCredential ==
  ~apiKey =>
    /\ scan_logs = <<>>
    /\ \A r \in Reqs : req[r].kind = "fetch" =>
         /\ CallsTo(req[r], "openai") = {}
         /\ CallsTo(req[r], "scan_logs.insert") = {}
         /\ req[r].pc = "done" => req[r].status = 500
         /\ (/\ req[r].pc = "done"
             /\ "feeds" \in req[r].present
             /\ \A k \in 1..Len(req[r].calls) : req[r].calls[k].outcome = "ok") =>
              /\ req[r].body = Message(<<"OpenAI API key is not set.">>)
              /\ Len(req[r].calls) = Len(req[r].feeds)
              /\ \A k \in 1..Len(req[r].feeds) :
                   /\ req[r].calls[k].api = "parseURL"
                   /\ req[r].calls[k].arg = req[r].feeds[k]

\* C3 witness: the credential-missing answer after two feeds were fetched.
C3_Witness ==
  \E r \in Reqs :
    /\ ~apiKey /\ Answered(r, "fetch")
    /\ req[r].body = Message(<<"OpenAI API key is not set.">>)
    /\ Len(req[r].feeds) = 2 /\ Len(req[r].calls) = 2

\* C4: when the row deletion of a DELETE /delete-user request settles without
\* error for a userId that has no row in users, the answer is 404, whatever the
\* auth deletion reported; a request is answered 200 only in the step that
\* removes its row from users.
C4_NotFoundWithoutRow ==
  [][ \A r \in Reqs :
        /\ (/\ req[r].pc = "rows"
            /\ Answered(r, "delete")'
            /\ req'[r].calls[2].outcome = "ok"
            /\ req[r].userId \notin users) => req'[r].status = 404
        /\ (req[r].status # 200 /\ req'[r].status = 200) =>
             /\ req[r].pc = "rows"
             /\ req[r].userId \in users
             /\ req[r].userId \notin users' ]_vars

\* C4 witness: the auth deletion succeeded, no row existed, the answer is 404.
C4_Witness ==
  \E r \in Reqs :
    /\ Answered(r, "delete") /\ req[r].status = 404
    /\ req[r].calls[1].outcome = "ok"
    /\ req[r].calls[2].outcome = "ok"

\* what C5 says of one request, in every state
AuthThenRows(q) ==
  /\ q.calls[1].api = "auth.deleteUser" /\ q.calls[1].arg = q.userId
  /\ CallsTo(q, "users.delete") \subseteq {2}
  /\ (\/ q.calls[1].outcome = "ok"
      \/ (q.calls[1].outcome = "error" /\ q.authError = "User not found")) =>
       /\ Len(q.calls) = 2
       /\ q.calls[2].api = "users.delete" /\ q.calls[2].arg = q.userId
  /\ (q.calls[1].outcome = "error" /\ q.authError # "User not found") =>
       /\ q.pc = "done"
       /\ q.status = 500
       /\ q.body = Message(<<"Failed to delete user from authentication: ", q.authError>>)
       /\ Len(q.calls) = 1

\* C5: a DELETE /delete-user request calls the auth deletion first; once that
\* reported success or 'User not found' the users deletion has been issued; once
\* it reported another error the request is answered 500 with that message and
\* issues no users deletion; users changes only by a deletion issued that way.
C5_AuthDeletionFirst ==
  [][ /\ \A r \in Reqs : req'[r].kind = "delete" => AuthThenRows(req'[r])
      /\ (users' # users) =>
           \E r \in Reqs : /\ req[r].pc = "rows"
                           /\ req[r].calls[1].outcome \in {"ok", "error"}
                           /\ req[r].authError \in {"", "User not found"}
                           /\ users' = users \ {req[r].userId} ]_vars

\* C5 witness: the auth deletion failed with another error and the user's row
\* is still there; another request went on after 'User not found'.
C5_Witness ==
  \E r, f \in Reqs :
    /\ Answered(r, "delete") /\ req[r].status = 500
    /\ req[r].authError = "Database error deleting user"
    /\ req[r].userId \in users
    /\ req[f].kind = "delete" /\ req[f].authError = "User not found"
    /\ Len(req[f].calls) = 2

\* the (feed position, item position) pairs of the items of q's feeds that carry
\* a date at or after q's start of today
TodayPairs(q) ==
  UNION { { <<f, k>> : k \in { j \in 1..Len(FeedItems(q.feeds[f])) :
                                /\ Len(FeedItems(q.feeds[f])[j].pubDate) = 2
                                /\ Instant(FeedItems(q.feeds[f])[j].pubDate)
                                     >= Instant(q.startOfToday) } }
          : f \in 1..Len(q.feeds) }

\* the place of pair p in feed-then-item order
PlaceOf(q, p) ==
  1 + Cardinality({o \in TodayPairs(q) : o[1] < p[1] \/ (o[1] = p[1] /\ o[2] < p[2])})

\* C6: a POST /fetch-articles request takes the first tick of the day it arrives
\* on as start of today, and when it is answered 200 the articles of the body are
\* the items of its feeds dated at or after that tick, one each, in feed order
\* and then item order, with id <<feed URL, "_", guid>>.
C6_ArticlesAreTodaysItems ==
  [][ \A r \in Reqs :
        /\ (req[r].pc = "idle" /\ req'[r].kind = "fetch") =>
             req'[r].startOfToday = <<now \div DayLen, 0>>
        /\ (req[r].pc # "done" /\ Answered(r, "fetch")' /\ req'[r].status = 200) =>
             /\ Len(req'[r].body.articles) = Cardinality(TodayPairs(req'[r]))
             /\ \A p \in TodayPairs(req'[r]) :
                  LET item == FeedItems(req'[r].feeds[p[1]])[p[2]]
                      article == req'[r].body.articles[PlaceOf(req'[r], p)]
                  IN  /\ article.id = <<req'[r].feeds[p[1]], "_", item.guid>>
                      /\ article.title = item.title
                      /\ article.link = item.link
                      /\ article.pubDate = item.pubDate ]_vars

\* C6 witness: two different feeds gave two articles, the first one published
\* at the very start of today, while an older item of that feed was left out.
C6_Witness ==
  \E r \in Reqs :
    /\ Answered(r, "fetch") /\ req[r].status = 200
    /\ Len(req[r].feeds) = 2 /\ req[r].feeds[1] # req[r].feeds[2]
    /\ Len(req[r].body.articles) = 2
    /\ req[r].body.articles[1].pubDate = req[r].startOfToday
    /\ req[r].body.articles[1].id = <<"a", "_", "g2">>

\* C7: a GET /check-scan request takes the first tick of the day it arrives on
\* as start of today; when its query settles without error it is answered 200,
\* scanDone telling whether scan_logs holds a row at or after that tick, else it
\* is answered 500; no step of the request changes scan_logs.
C7_ScanDoneIffRowSinceMidnight ==
  [][ \A r \in Reqs :
        /\ (req[r].pc = "idle" /\ req'[r].kind = "check") =>
             /\ req'[r].startOfToday = <<now \div DayLen, 0>>
             /\ scan_logs' = scan_logs
        /\ (req[r].pc = "query" /\ req'[r].pc = "done") =>
             /\ scan_logs' = scan_logs
             /\ req'[r].calls[1].outcome = "ok" =>
                  /\ req'[r].status = 200
                  /\ req'[r].body =
                       [scanDone |-> \E k \in 1..Len(scan_logs) :
                          Instant(scan_logs[k]) >= Instant(req[r].startOfToday)]
             /\ req'[r].calls[1].outcome # "ok" => req'[r].status = 500 ]_vars

\* C7 witness: scanDone is true on account of a row dated exactly at the start
\* of today, no row being later.
C7_Witness ==
  \E r \in Reqs :
    /\ Answered(r, "check") /\ req[r].status = 200 /\ req[r].body.scanDone
    /\ \E k \in 1..Len(scan_logs) : scan_logs[k] = req[r].startOfToday
    /\ \A k \in 1..Len(scan_logs) :
         Instant(scan_logs[k]) <= Instant(req[r].startOfToday)

\* rows of scan_logs dated on day d
RowsOfDay(d) == {k \in 1..Len(scan_logs) : scan_logs[k][1] = d}

\* C8 as claimed: scan_logs holds at most one row per day.
C8_OneRowPerDay ==
  \A d \in 0..(MaxTime \div DayLen) : Cardinality(RowsOfDay(d)) <= 1

\* C8 amended: scan_logs holds one row per POST /fetch-articles request whose
\* insert the store accepted, dated on the day the request issued the insert;
\* nothing limits the rows of a day.
C8_OneRowPerAcceptedInsert ==
  \A d \in 0..(MaxTime \div DayLen) :
    Cardinality(RowsOfDay(d)) =
      Cardinality({r \in Inserted : req[r].scanDate[1] = d})

\* C8 witness: two requests succeeded on the same day and left two rows.
C8_Witness ==
  /\ Cardinality(Inserted) = 2
  /\ Len(scan_logs) = 2
  /\ scan_logs[1][1] = scan_logs[2][1]

\* a request whose body lacks a required field
MissingField(q) ==
  \/ q.kind = "validate" /\ "url" \notin q.present
  \/ q.kind = "fetch" /\ q.present # {"feeds", "openAiContext"}

\* C9 as claimed: a request that lacks a required field is answered 4xx, having
\* made no external call.
C9_MissingFieldRejected ==
  \A r \in Reqs :
    (req[r].pc = "done" /\ MissingField(req[r])) =>
      /\ req[r].status \in 400..499
      /\ req[r].calls = <<>>

\* C9 amended: no handler validates its body.  Without url, POST /validate-feed
\* hands the absent url to the parser and answers 500 when it throws; without
\* feeds, POST /fetch-articles answers 500 (Error fetching articles) having made
\* no external call; without openAiContext only, it runs as with it, the prompt
\* reading "undefined", and is answered 200 or 500.
C9_MissingFieldNotValidated ==
  \A r \in Reqs :
    /\ (Answered(r, "validate") /\ "url" \notin req[r].present) =>
         /\ req[r].status = 500
         /\ Len(req[r].calls) = 1
         /\ req[r].calls[1].api = "parseURL" /\ req[r].calls[1].arg = Missing
    /\ (req[r].kind = "fetch" /\ "feeds" \notin req[r].present) =>
         /\ req[r].pc = "done"
         /\ req[r].status = 500
         /\ req[r].body = Message(<<"Error fetching articles">>)
         /\ req[r].calls = <<>>
    /\ (req[r].kind = "fetch" /\ req[r].present = {"feeds"}) =>
         /\ req[r].pc = "done" => req[r].status \in {200, 500}
         /\ req[r].feeds # <<>> =>
              req[r].calls[1].api = "parseURL" /\ req[r].calls[1].arg = req[r].feeds[1]
         /\ (apiKey /\ req[r].feeds = <<>>) => req[r].calls[1].api = "openai"
         /\ \A k \in CallsTo(req[r], "openai") : req[r].calls[k].arg[2] = Missing

\* C9 witness: a request without openAiContext was answered 200 and a
\* POST /validate-feed without url was answered 500 after the parser threw.
C9_Witness ==
  \E r, v \in Reqs :
    /\ Answered(r, "fetch") /\ req[r].present = {"feeds"} /\ req[r].status = 200
    /\ Answered(v, "validate") /\ "url" \notin req[v].present /\ req[v].status = 500

\* C10 as claimed: a POST /fetch-articles request answered 200 has had its row
\* accepted by the store, and the row is in scan_logs.
C10_OkMeansRowPersisted ==
  \A r \in Reqs :
    (Answered(r, "fetch") /\ req[r].status = 200) =>
      /\ r \in Inserted
      /\ \E k \in 1..Len(scan_logs) : scan_logs[k] = req[r].scanDate

====
